---- MODULE Spec2Model ----
(***************************************************************************)
(* A model of src/SENG265/A3/list.c: a singly linked list of song records  *)
(* with front, end and ordered insertion, front removal and traversal.     *)
(* The heap is an arena of MaxNodes node cells; a pointer is a cell index  *)
(* and NULL is 0.                                                          *)
(***************************************************************************)
EXTENDS Integers, Sequences, FiniteSets, TLC

\* ----------------------------------------------------------------- bounds
MaxNodes == 4       \* nodes allocated when only add_inorder is used
MaxOpsNodes == 3    \* nodes allocated when every operation is used

NULL == 0
Nodes == 1..MaxNodes
Ptr == 0..MaxNodes

\* Strings are sequences of character codes: "A" = <<65>>, "AB" = <<65,66>>.
Comparators == {3, 5, 8}
Titles == {<<65>>, <<65, 66>>, <<66>>}
Artists == {<<88>>, <<89>>}
\* The artist decides only between nodes of equal comparator: it varies on
\* one comparator, enough for both outcomes of the artist comparison.
Songs ==
    {s \in [comparator : Comparators, song : Titles, artist : Artists] :
        s.artist # <<88>> => s.comparator = 3}
OpsSongs ==
    {s \in Songs : s.comparator # 8 /\ s.artist = <<88>> /\ Len(s.song) = 1}
ReuseSongs == {s \in OpsSongs : s.song = <<65>>}
ApplySongs == {s \in OpsSongs : s.comparator = 3 /\ s.song = <<65>>}
NoSong == [comparator |-> 0, song |-> <<>>, artist |-> <<>>]
Args == {"ctx1", "ctx2"}

VARIABLES
    song,      \* heap: node -> the Song its song pointer refers to
    next,      \* heap: node -> next pointer
    nalloc,    \* number of nodes emalloc has handed out
    list,      \* the caller's head pointer
    fresh,     \* nodes made by new_node and not yet passed to an insertion
    status,    \* "ok", "crashed" (invalid access), "hung" (endless loop)
    pc,        \* "idle", "apply" (inside apply's loop), "applied"
    applyCur,  \* apply's loop variable
    applyArg,  \* the arg passed to apply
    visits,    \* the calls (*fn)(node, arg) made by the running apply
    last       \* the last list operation and the heap it was called on

vars == <<song, next, nalloc, list, fresh, status, pc, applyCur, applyArg,
          visits, last>>

\* -------------------------------------------------------------- helpers
RECURSIVE strcmp(_, _)
strcmp(s, t) ==
    LET a == IF s = <<>> THEN 0 ELSE Head(s)
        b == IF t = <<>> THEN 0 ELSE Head(t)
    IN  IF a # b THEN a - b
        ELSE IF a = 0 THEN 0
        ELSE strcmp(Tail(s), Tail(t))

\* The nodes met following next pointers from h, cut after MaxNodes + 1.
RECURSIVE WalkF(_, _, _)
WalkF(nxt, h, fuel) ==
    IF h = NULL \/ fuel = 0 THEN <<>>
    ELSE <<h>> \o WalkF(nxt, nxt[h], fuel - 1)

Walk(nxt, h) == WalkF(nxt, h, MaxNodes + 1)

Members(nxt, h) == {Walk(nxt, h)[i] : i \in 1..Len(Walk(nxt, h))}

Returned(nxt, head, deref) ==
    [next |-> nxt, head |-> head, status |-> "ok", nullDeref |-> deref]

Crashed(nxt) ==
    [next |-> nxt, head |-> NULL, status |-> "crashed", nullDeref |-> TRUE]

Hung(nxt) ==
    [next |-> nxt, head |-> NULL, status |-> "hung", nullDeref |-> FALSE]

\* ------------------------------------------------------------ functions
add_front_unlinked(nxt, lst, new) ==
    Returned(nxt, new, FALSE)

add_front(nxt, lst, new) ==
    Returned([nxt EXCEPT ![new] = lst], new, FALSE)

\* for (curr = list; curr->next != NULL; curr = curr->next);
RECURSIVE end_scan(_, _, _)
end_scan(nxt, curr, fuel) ==
    IF nxt[curr] = NULL THEN curr
    ELSE IF fuel = 0 THEN NULL
    ELSE end_scan(nxt, nxt[curr], fuel - 1)

add_end_keeps_link(nxt, lst, new) ==
    IF lst = NULL THEN Returned(nxt, new, FALSE)
    ELSE LET curr == end_scan(nxt, lst, MaxNodes + 1)
         IN  IF curr = NULL THEN Hung(nxt)
             ELSE Returned([nxt EXCEPT ![curr] = new], lst, FALSE)

add_end(nxt, lst, new) ==
    IF lst = NULL THEN Returned([nxt EXCEPT ![new] = NULL], new, FALSE)
    ELSE LET curr == end_scan(nxt, lst, MaxNodes + 1)
         IN  IF curr = NULL THEN Hung(nxt)
             ELSE Returned([[nxt EXCEPT ![curr] = new] EXCEPT ![new] = NULL],
                           lst, FALSE)

link_back(nxt, prv, cur, new) ==
    [[nxt EXCEPT ![prv] = new] EXCEPT ![new] = prv]

\* prev->next = new; new->next = cur;
link(nxt, prv, cur, new) ==
    [[nxt EXCEPT ![prv] = new] EXCEPT ![new] = cur]

single_node_swapped(nxt, sng, lst, new) ==
    IF sng[lst].comparator < sng[new].comparator
    THEN Returned([nxt EXCEPT ![lst] = new], lst, FALSE)
    ELSE Returned([nxt EXCEPT ![new] = lst], new, FALSE)

\* the branch for a list of one node
single_node(nxt, sng, lst, new) ==
    IF sng[lst].comparator > sng[new].comparator
    THEN Returned([nxt EXCEPT ![lst] = new], lst, FALSE)
    ELSE IF sng[lst].comparator < sng[new].comparator
    THEN Returned([nxt EXCEPT ![new] = lst], new, FALSE)
    ELSE IF strcmp(sng[lst].artist, sng[new].artist) < 0
    THEN Returned([nxt EXCEPT ![lst] = new], lst, FALSE)
    ELSE Returned([nxt EXCEPT ![new] = lst], new, FALSE)

\* while (new->comparator == cur->comparator && strcmp(new, cur) < 0)
\* with no test of cur: fault "null" when cur is NULL at the test.
RECURSIVE scan_equal_head(_, _, _, _, _, _)
scan_equal_head(nxt, sng, new, prv, cur, fuel) ==
    IF cur = NULL THEN [prev |-> prv, cur |-> cur, fault |-> "null"]
    ELSE IF sng[new].comparator = sng[cur].comparator
            /\ strcmp(sng[new].song, sng[cur].song) < 0
    THEN IF fuel = 0 THEN [prev |-> prv, cur |-> cur, fault |-> "diverge"]
         ELSE scan_equal_head(nxt, sng, new, nxt[prv], nxt[cur], fuel - 1)
    ELSE [prev |-> prv, cur |-> cur, fault |-> "none"]

\* while (cur != NULL && new->comparator < cur->comparator)
RECURSIVE scan_less(_, _, _, _, _, _)
scan_less(nxt, sng, new, prv, cur, fuel) ==
    IF cur # NULL /\ sng[new].comparator < sng[cur].comparator
    THEN IF fuel = 0 THEN [prev |-> prv, cur |-> cur, fault |-> "diverge"]
         ELSE scan_less(nxt, sng, new, nxt[prv], nxt[cur], fuel - 1)
    ELSE [prev |-> prv, cur |-> cur, fault |-> "none"]

RECURSIVE scan_equal_no_title(_, _, _, _, _, _)
scan_equal_no_title(nxt, sng, new, prv, cur, fuel) ==
    IF cur # NULL /\ sng[new].comparator = sng[cur].comparator
    THEN IF fuel = 0 THEN [prev |-> prv, cur |-> cur, fault |-> "diverge"]
         ELSE scan_equal_no_title(nxt, sng, new, nxt[prv], nxt[cur], fuel - 1)
    ELSE [prev |-> prv, cur |-> cur, fault |-> "none"]

\* while (cur != NULL && new->comparator == cur->comparator && strcmp < 0)
RECURSIVE scan_equal(_, _, _, _, _, _)
scan_equal(nxt, sng, new, prv, cur, fuel) ==
    IF cur # NULL /\ sng[new].comparator = sng[cur].comparator
                  /\ strcmp(sng[new].song, sng[cur].song) < 0
    THEN IF fuel = 0 THEN [prev |-> prv, cur |-> cur, fault |-> "diverge"]
         ELSE scan_equal(nxt, sng, new, nxt[prv], nxt[cur], fuel - 1)
    ELSE [prev |-> prv, cur |-> cur, fault |-> "none"]

\* the branch new->comparator == list->comparator of a list of two or more
\* nodes.  Testing cur->song with cur == NULL is undefined: the process is
\* killed, or the read yields a value that ends the loop.
head_equal(nxt, sng, lst, new) ==
    IF strcmp(sng[new].song, sng[lst].song) > 0
    THEN {Returned([nxt EXCEPT ![new] = lst], new, FALSE)}
    ELSE LET s == scan_equal_head(nxt, sng, new, lst, nxt[lst], MaxNodes + 1)
         IN  IF s.fault = "null"
             THEN {Crashed(nxt),
                   Returned(link(nxt, s.prev, NULL, new), lst, TRUE)}
             ELSE IF s.fault = "diverge" THEN {Hung(nxt)}
             ELSE {Returned(link(nxt, s.prev, s.cur, new), lst, FALSE)}

head_less_one_scan(nxt, sng, lst, new) ==
    LET s1 == scan_less(nxt, sng, new, lst, nxt[lst], MaxNodes + 1)
    IN  IF s1.fault = "diverge" THEN {Hung(nxt)}
        ELSE {Returned([[nxt EXCEPT ![s1.prev] = new] EXCEPT ![new] = s1.cur],
                       lst, FALSE)}

head_less_drops_rest(nxt, sng, lst, new) ==
    LET s1 == scan_less(nxt, sng, new, lst, nxt[lst], MaxNodes + 1)
        s2 == scan_equal(nxt, sng, new, s1.prev, s1.cur, MaxNodes + 1)
    IN  IF s1.fault = "diverge" \/ s2.fault = "diverge" THEN {Hung(nxt)}
        ELSE {Returned([nxt EXCEPT ![s2.prev] = new], lst, FALSE)}

\* the branch new->comparator < list->comparator of a list of two or more
head_less(nxt, sng, lst, new) ==
    LET s1 == scan_less(nxt, sng, new, lst, nxt[lst], MaxNodes + 1)
        s2 == scan_equal(nxt, sng, new, s1.prev, s1.cur, MaxNodes + 1)
    IN  IF s1.fault = "diverge" \/ s2.fault = "diverge" THEN {Hung(nxt)}
        ELSE {Returned(link(nxt, s2.prev, s2.cur, new), lst, FALSE)}

\* The set of outcomes of add_inorder(list, new).
add_inorder(nxt, sng, lst, new) ==
    IF lst = NULL THEN {Returned(nxt, new, FALSE)}
    ELSE IF nxt[lst] = NULL THEN {single_node(nxt, sng, lst, new)}
    ELSE IF sng[new].comparator > sng[lst].comparator
    THEN {Returned([nxt EXCEPT ![new] = lst], new, FALSE)}
    ELSE IF sng[new].comparator = sng[lst].comparator
    THEN head_equal(nxt, sng, lst, new)
    ELSE head_less(nxt, sng, lst, new)

remove_front(nxt, lst) ==
    IF lst = NULL THEN NULL ELSE nxt[lst]

\* ---------------------------------------------------------------- state
NoOp ==
    [op |-> "none", node |-> NULL, list0 |-> NULL,
     next0 |-> [n \in Nodes |-> NULL],
     song0 |-> [n \in Nodes |-> NoSong], nullDeref |-> FALSE,
     wasFresh |-> FALSE, after |-> "none"]

Init ==
    /\ song = [n \in Nodes |-> NoSong]
    /\ next = [n \in Nodes |-> NULL]
    /\ nalloc = 0
    /\ list = NULL
    /\ fresh = {}
    /\ status = "ok"
    /\ pc = "idle"
    /\ applyCur = NULL
    /\ applyArg = "ctx1"
    /\ visits = <<>>
    /\ last = NoOp

Callable == status = "ok" /\ pc # "apply"

\* The caller's side of one list operation: the result replaces the head.
Commit(opname, new, o) ==
    /\ next' = o.next
    /\ status' = o.status
    /\ list' = IF o.status = "ok" THEN o.head ELSE list
    /\ fresh' = fresh \ {new}
    /\ last' = [op |-> opname, node |-> new, list0 |-> list, next0 |-> next,
                song0 |-> song,
                nullDeref |-> o.nullDeref, wasFresh |-> new \in fresh,
                after |-> last.op]
    /\ pc' = "idle"
    /\ visits' = <<>>
    /\ UNCHANGED <<song, nalloc, applyCur, applyArg>>

\* node_t *new_node(Song *val): the caller inserts a node before it makes
\* the next one.
NewNodeOf(S, max) ==
    /\ Callable
    /\ nalloc < max
    /\ fresh = {}
    /\ \E val \in S :
          /\ song' = [song EXCEPT ![nalloc + 1] = val]
          /\ next' = [next EXCEPT ![nalloc + 1] = NULL]
    /\ nalloc' = nalloc + 1
    /\ fresh' = fresh \cup {nalloc + 1}
    /\ UNCHANGED <<list, status, pc, applyCur, applyArg, visits, last>>

NewNode == NewNodeOf(Songs, MaxNodes)
NewOpsNode == NewNodeOf(OpsSongs, MaxOpsNodes)
NewReuseNode == NewNodeOf(ReuseSongs, MaxOpsNodes)
NewApplyNode == NewNodeOf(ApplySongs, MaxNodes)

\* Nodes the caller holds that are not in the list: never inserted, or
\* taken off by remove_front.
Outside == (1..nalloc) \ Members(next, list)

AddFrontOf(C) ==
    /\ Callable
    /\ \E new \in C : Commit("add_front", new, add_front(next, list, new))

AddEndOf(C) ==
    /\ Callable
    /\ \E new \in C : Commit("add_end", new, add_end(next, list, new))

AddInorderOf(C) ==
    /\ Callable
    /\ \E new \in C :
          \E o \in add_inorder(next, song, list, new) :
              Commit("add_inorder", new, o)

AddInorder == AddInorderOf(fresh)
AddFront == AddFrontOf(fresh)
AddEnd == AddEndOf(fresh)

AddInorderAny == AddInorderOf(Outside)
AddFrontAny == AddFrontOf(Outside)
AddEndAny == AddEndOf(Outside)

RemoveFront ==
    /\ Callable
    /\ list' = remove_front(next, list)
    /\ last' = [op |-> "remove_front", node |-> list, list0 |-> list,
                next0 |-> next, song0 |-> song, nullDeref |-> FALSE,
                wasFresh |-> FALSE,
                after |-> last.op]
    /\ pc' = "idle"
    /\ visits' = <<>>
    /\ UNCHANGED <<song, next, nalloc, fresh, status, applyCur, applyArg>>

ApplyCallSkipsHead ==
    /\ Callable
    /\ \E arg \in Args : applyArg' = arg
    /\ applyCur' = remove_front(next, list)
    /\ visits' = <<>>
    /\ pc' = "apply"
    /\ UNCHANGED <<song, next, nalloc, list, fresh, status, last>>

\* apply(list, fn, arg): entry, one iteration of the loop, loop exit.
ApplyCall ==
    /\ Callable
    /\ \E arg \in Args : applyArg' = arg
    /\ applyCur' = list
    /\ visits' = <<>>
    /\ pc' = "apply"
    /\ UNCHANGED <<song, next, nalloc, list, fresh, status, last>>

ApplyStep ==
    /\ status = "ok" /\ pc = "apply"
    /\ applyCur # NULL
    /\ visits' = Append(visits, <<applyCur, applyArg>>)
    /\ applyCur' = next[applyCur]
    /\ UNCHANGED <<song, next, nalloc, list, fresh, status, pc, applyArg,
                   last>>

ApplyReturn ==
    /\ status = "ok" /\ pc = "apply"
    /\ applyCur = NULL
    /\ pc' = "applied"
    /\ UNCHANGED <<song, next, nalloc, list, fresh, status, applyCur,
                   applyArg, visits, last>>

\* ------------------------------------------------------- specifications
\* Ordered insertion of new nodes only.
Next == NewNode \/ AddInorder

Spec == Init /\ [][Next]_vars

\* Every operation that changes the list, each inserted node new.
OpsNext ==
    \/ NewOpsNode
    \/ AddFront
    \/ AddEnd
    \/ AddInorder
    \/ RemoveFront

OpsSpec == Init /\ [][OpsNext]_vars

\* Insertions of any node the caller holds outside the list.
ReuseNext ==
    \/ NewReuseNode
    \/ AddFrontAny
    \/ AddEndAny
    \/ AddInorderAny
    \/ RemoveFront

ReuseSpec == Init /\ [][ReuseNext]_vars

\* Traversal of the lists built from new nodes; apply runs to completion
\* once called.
ApplyNext ==
    \/ NewApplyNode
    \/ AddFront
    \/ AddEnd
    \/ RemoveFront
    \/ ApplyCall
    \/ ApplyStep
    \/ ApplyReturn

ApplySpec ==
    Init /\ [][ApplyNext]_vars /\ WF_vars(ApplyStep) /\ WF_vars(ApplyReturn)

\* ------------------------------------------------------------ properties
Chain == Walk(next, list)
Chain0 == Walk(last.next0, last.list0)

\* no node at two positions, and the last node's next pointer is NULL
SimpleChain(nxt, h) ==
    LET w == Walk(nxt, h)
    IN  /\ \A i, j \in 1..Len(w) : i # j => w[i] # w[j]
        /\ w = <<>> \/ nxt[w[Len(w)]] = NULL

Adjacent(P(_, _)) ==
    \A i \in 1..(Len(Chain) - 1) : P(song[Chain[i]], song[Chain[i + 1]])

ComparatorDescending(a, b) == a.comparator >= b.comparator

TitleAscending(a, b) ==
    a.comparator = b.comparator => strcmp(a.song, b.song) <= 0

TitleDescending(a, b) ==
    a.comparator = b.comparator => strcmp(a.song, b.song) >= 0

\* In Spec the nodes are inserted in the order they are made, so nodes 1
\* and 2 are the first two inserted; they meet in the one-node branch.
FirstTwoTie ==
    /\ nalloc >= 2 /\ 2 \notin fresh
    /\ song[1].comparator = song[2].comparator

Position(n) == CHOOSE i \in 1..Len(Chain) : Chain[i] = n

C2_NoNullDereference ==
    last.op = "add_inorder" => (~last.nullDeref /\ status = "ok")

C3_Scenario ==
    /\ nalloc = 4 /\ fresh = {} /\ status = "ok"
    /\ song[1].comparator = 5
    /\ song[2].comparator = 3 /\ song[2].song = <<66>>
    /\ song[3].comparator = 8
    /\ song[4].comparator = 3 /\ song[4].song = <<65>>

\* C3 as stated: inserting 5, 3 "B", 8, 3 "A" in this order yields the chain
\* 8, 5, 3 "A", 3 "B".
C3_ScenarioTitleAscending == C3_Scenario => Chain = <<3, 1, 4, 2>>

\* C3 amended: inserting 5, 3 "B", 8, 3 "A" in this order yields the chain
\* 8, 5, 3 "B", 3 "A".
C3_ScenarioTitleDescending == C3_Scenario => Chain = <<3, 1, 2, 4>>

C3_Witness == C3_Scenario /\ last.op = "add_inorder" /\ last.node = 4

\* C8: after add_inorder insertions of new nodes the comparators do not
\* increase along the chain, whatever the titles and artists.
C8_ComparatorsNonIncreasing ==
    \A i, j \in 1..Len(Chain) :
        i < j => song[Chain[i]].comparator >= song[Chain[j]].comparator

C8_Witness ==
    /\ last.op = "add_inorder" /\ Len(Chain) >= 3
    /\ song[Chain[1]].comparator > song[Chain[2]].comparator
    /\ song[Chain[2]].comparator > song[Chain[3]].comparator
    /\ last.node = Chain[2]
    /\ song[Chain[1]].song # song[Chain[2]].song

\* C9: when add_inorder returns, the chain holds the nodes of the old chain
\* and the new node, each once, the old nodes in their old order, and no
\* node's song has changed.
C9_OnlyAdds ==
    (last.op = "add_inorder" /\ status = "ok") =>
        /\ Len(Chain) = Len(Chain0) + 1
        /\ SimpleChain(next, list)
        /\ Members(next, list) = Members(last.next0, last.list0) \cup {last.node}
        /\ SelectSeq(Chain, LAMBDA m : m # last.node) = Chain0
        /\ \A m \in Members(next, list) : song[m] = last.song0[m]

C9_Witness ==
    /\ last.op = "add_inorder" /\ status = "ok"
    /\ Len(Chain) >= 4
    /\ Chain[3] = last.node

\* C7: with every inserted node new, after any add_front, add_end,
\* add_inorder and remove_front calls the chain from the head has no node
\* twice and ends in NULL.
C7_SimpleChain == SimpleChain(next, list)

C7_Witness ==
    /\ last.op = "add_inorder" /\ last.after = "remove_front"
    /\ status = "ok"
    /\ Len(Chain) >= 2
    /\ \E n \in 1..nalloc : n \notin Members(next, list) /\ next[n] # NULL

\* C4: remove_front right after add_front(L, n) returns the head of L with
\* the next pointers of the nodes of L as they were; remove_front of a list
\* of at most one node returns NULL.
C4_FrontRoundTrip ==
    [][RemoveFront =>
          /\ last.op = "add_front" =>
                /\ list' = last.list0
                /\ \A m \in Members(last.next0, last.list0) :
                      next'[m] = last.next0[m]
          /\ Len(Chain) <= 1 => list' = NULL]_vars

C4_Witness ==
    /\ last.op = "remove_front" /\ last.after = "add_front"
    /\ Len(Chain) >= 2
    /\ next[last.node] = list

\* C6: when add_end(L, n) returns, the head is that of L, or n when L is
\* empty, and the chain is the chain of L followed by n, whose next pointer
\* is NULL whatever it was before.
C6_AddEndAppends ==
    (last.op = "add_end" /\ status = "ok") =>
        /\ list = IF last.list0 # NULL THEN last.list0 ELSE last.node
        /\ next[last.node] = NULL
        /\ Chain = Append(Chain0, last.node)

C6_Witness ==
    /\ last.op = "add_end" /\ status = "ok"
    /\ last.list0 # NULL
    /\ last.next0[last.node] # NULL

\* C10: add_inorder of a node taken off by remove_front, whatever that
\* node's next pointer still is, yields a chain that has no node twice, ends
\* in NULL and holds the nodes of the list it was given and the node.
C10_ReinsertedNodeIsLinked ==
    (/\ last.op = "add_inorder" /\ ~last.wasFresh /\ status = "ok"
     /\ SimpleChain(last.next0, last.list0)) =>
        /\ SimpleChain(next, list)
        /\ Members(next, list) = Members(last.next0, last.list0) \cup {last.node}

\* C5: apply over a chain of k nodes calls the visitor k times, once per
\* node from head to tail, each time with the caller's arg, and returns.
C5_ApplyVisitsAll ==
    /\ [](pc = "applied" =>
            visits = [i \in 1..Len(Chain) |-> <<Chain[i], applyArg>>])
    /\ (pc = "apply") ~> (pc = "applied")

C5_Witness ==
    /\ pc = "applied"
    /\ Len(visits) >= 3
    /\ applyArg = "ctx2"

====
